---- MODULE Spec2Model ----
(***************************************************************************)
(* Face-detection-and-crop pipeline of the Wild West Poster Generator      *)
(* (src/src/utils/faceDetection.ts) and the form that calls it             *)
(* (src/src/App.tsx).                                                      *)
(*                                                                         *)
(* Spec      overlapping processImageWithFaceDetection and loadModels      *)
(*           calls, one action per callback / await continuation.          *)
(* SeqSpec   loadModels called again and again by one caller that awaits   *)
(*           each call before it issues the next.                          *)
(* FairSpec  Spec with every awaited operation eventually completing.      *)
(* CallerSpec one caller of processImageWithFaceDetection that awaits each *)
(*           call and issues the next one from the continuation.           *)
(* CropSpec  the crop-rectangle arithmetic of cropImageToFace applied to   *)
(*           bounded (box, image size, padding) inputs.                    *)
(* AppSpec   the App component: its useState cells, its event handlers and *)
(*           the continuations of the handlers in flight; a call of        *)
(*           processImageWithFaceDetection settles with one of the         *)
(*           outcomes the pipeline can produce.                            *)
(*                                                                         *)
(* Lengths are held in fixed point: one unit is 1/Unit pixel, so that the  *)
(* halves (width / 2, cropSize / 2) and the one-decimal padding factor     *)
(* (1.8) of the source are exact.  Padding is held in tenths.  The source   *)
(* computes in IEEE doubles; the model computes the exact rational values, *)
(* which the doubles match up to rounding in the last place.               *)
(***************************************************************************)
EXTENDS Integers, FiniteSets, Sequences, TLC

VARIABLES
    modelsLoaded,   \* faceDetection.ts:6   let modelsLoaded
    faceapi,        \* faceDetection.ts:3   let faceapi (TRUE once the import resolved)
    pc,             \* per invocation: the callback / await it is suspended at
    input,          \* per invocation: the imageDataUrl argument
    detection,      \* per invocation: const detection (faceDetection.ts:147)
    crop,           \* per invocation: the rectangle computed at faceDetection.ts:92-95
    outcome,        \* per invocation: how the returned promise settled
    events,         \* per invocation: branches taken so far (history)
    call,           \* per invocation: which exported function was called
    fetchCount,     \* history: calls of loadFromUri (faceDetection.ts:26) so far
    loadCalls,      \* history: entries into loadModels (faceDetection.ts:13) so far
    loadErrors,     \* history: times the catch of loadModels (faceDetection.ts:30-33) ran
    cropArgs,       \* CropSpec: arguments of a direct cropImageToFace call
    cropRect,       \* CropSpec: the rectangle that call computed
    name,                   \* App.tsx:19  useState('')
    location,               \* App.tsx:22  useState('')
    selectedImage,          \* App.tsx:25  useState<string | null>(null)
    selectedFilter,         \* App.tsx:28  useState('classic')
    selectedFont,           \* App.tsx:31  useState('serif')
    customOptions,          \* App.tsx:35  useState({showBorder: true, ...})
    showPoster,             \* App.tsx:44  useState(false)
    isProcessingImage,      \* App.tsx:47  useState(false)
    faceDetected,           \* App.tsx:50  useState<boolean | null>(null)
    faceDetectionEnabled,   \* App.tsx:53  useState(true)
    originalImage,          \* App.tsx:56  useState<string | null>(null)
    handlers,       \* per handler in flight: the await it is suspended at and the
                    \* values its closure captured
    lastEvent,      \* history: the handler or continuation that ran last
    ticket,         \* CallerSpec, per invocation: its number in invocation order
    issued,         \* CallerSpec, history: the inputs of the calls, in invocation order
    delivered       \* CallerSpec, history: the outcomes the caller's continuation
                    \* received, in order of arrival

vars == <<modelsLoaded, faceapi, pc, input, detection, crop, outcome, events,
          call, fetchCount, loadCalls, loadErrors, cropArgs, cropRect,
          name, location, selectedImage, selectedFilter, selectedFont, customOptions,
          showPoster, isProcessingImage, faceDetected, faceDetectionEnabled,
          originalImage, handlers, lastEvent, ticket, issued, delivered>>

pipeVars == <<modelsLoaded, faceapi, pc, input, detection, crop, outcome, events,
              call, fetchCount, loadCalls, loadErrors>>

loadVars == <<fetchCount, loadCalls, loadErrors>>

geoVars == <<cropArgs, cropRect>>

\* the useState cells of App that only the form edits
formVars == <<name, location, selectedFilter, selectedFont, customOptions>>

\* the useState cells of App the upload and toggle handlers write
imageVars == <<selectedImage, isProcessingImage, faceDetected, faceDetectionEnabled,
               originalImage>>

appVars == <<formVars, imageVars, showPoster, handlers, lastEvent>>

callerVars == <<ticket, issued, delivered>>

----------------------------------------------------------------------------
(* Bounds *)

\* detector boxes of the pipeline: x, y in 0..MaxBoxPos, width, height in 1..MaxBoxSize
MaxBoxPos == 0

MaxBoxSize == 2

\* loadModels() calls issued over a run of SeqSpec
MaxLoadCalls == 4

\* processImageWithFaceDetection calls issued over a run of CallerSpec
MaxProcessCalls == 3

\* CropSpec: image sides 1..MaxSide, box origin 0..MaxSide, box sides 1..MaxSide
MaxSide == 4

\* CropSpec: padding factors 1.0 .. MaxPadTenths/10 in steps of 0.1, and the default
MaxPadTenths == 14

----------------------------------------------------------------------------
(* Values *)

\* fixed-point units per pixel
Unit == 20

\* padding: number = 1.8, in tenths
DefaultPadding == 18

\* the two overlapping invocations
Procs == {1, 2}

\* uploaded data URLs
ImageIds == {1, 2}

NoRect == [x |-> 0, y |-> 0, width |-> 0, height |-> 0]

NoImage == [kind |-> "none", id |-> 0, rect |-> NoRect]

Upload(k) == [kind |-> "upload", id |-> k, rect |-> NoRect]

Images == {Upload(k) : k \in ImageIds}

\* decoded pixel size of a data URL (img.width, img.height)
ImgWidth(image) == 2 + image.id

ImgHeight(image) == 1 + image.id

\* detection === null
NoDetection == [found |-> FALSE, x |-> 0, y |-> 0, width |-> 0, height |-> 0]

Found(b) == [found |-> TRUE, x |-> b.x, y |-> b.y, width |-> b.width, height |-> b.height]

Boxes == [x : 0..MaxBoxPos, y : 0..MaxBoxPos, width : 1..MaxBoxSize, height : 1..MaxBoxSize]

Pending == [settled |-> "pending", processedImage |-> NoImage, faceDetected |-> FALSE,
            detection |-> NoDetection]

\* values typed into the Title / Name and the Subtitle / Location inputs
Names == {"", "Doc Holliday"}

Locations == {"", "Tombstone"}

\* filter and font ids offered by FilterSelector and FontSelector
Filters == {"classic", "sheriff"}

Fonts == {"serif", "western"}

\* the toggles of CustomizationPanel exercised here
ToggledOptions == {"showBorder"}

\* the files chosen in the file input
Files == Images

\* the upload and toggle handlers that may be in flight at once
Handlers == {1, 2}

\* no handler suspended in this slot
IdleHandler == [pc |-> "idle", kind |-> "none", image |-> NoImage, enabled |-> FALSE]

\* boolean | null of faceDetected
Tri(b) == IF b THEN "true" ELSE "false"

\* the box the detector reports for an uploaded photograph
FaceBox == [x |-> 0, y |-> 0, width |-> 1, height |-> 1]

Max(a, b) == IF a >= b THEN a ELSE b

Min(a, b) == IF a <= b THEN a ELSE b

----------------------------------------------------------------------------
(* cropImageToFace: the rectangle, faceDetection.ts:79-95 *)

FaceCenterX(box) == Unit * box.x + (Unit * box.width) \div 2

FaceCenterY(box) == Unit * box.y + (Unit * box.height) \div 2

\* mutant: the smaller side sizes the crop
MaxDimension_Smaller(box) == Min(box.width, box.height)

MaxDimension(box) == Max(box.width, box.height)

\* maxDimension * padding, padding in tenths
CropSize(box, padding) == (Unit * MaxDimension(box) * padding) \div 10

\* mutant: the Math.max(0, ...) of cropX is missing
CropX_Unclamped(box, padding) == FaceCenterX(box) - CropSize(box, padding) \div 2

CropX(box, padding) == Max(0, FaceCenterX(box) - CropSize(box, padding) \div 2)

\* mutant: the Math.max(0, ...) of cropY is missing
CropY_Unclamped(box, padding) == FaceCenterY(box) - CropSize(box, padding) \div 2

CropY(box, padding) == Max(0, FaceCenterY(box) - CropSize(box, padding) \div 2)

\* mutant: the Math.min(cropSize, ...) of cropWidth is missing
CropWidth_Unclamped(box, imgWidth, padding) == CropSize(box, padding)

CropWidth(box, imgWidth, padding) ==
    Min(CropSize(box, padding), Unit * imgWidth - CropX(box, padding))

\* mutant: the height is measured from the face center instead of from cropY
CropHeight_FromCenter(box, imgHeight, padding) ==
    Min(CropSize(box, padding), Unit * imgHeight - FaceCenterY(box))

CropHeight(box, imgHeight, padding) ==
    Min(CropSize(box, padding), Unit * imgHeight - CropY(box, padding))

ComputeCrop(box, imgWidth, imgHeight, padding) ==
    [x      |-> CropX(box, padding),
     y      |-> CropY(box, padding),
     width  |-> CropWidth(box, imgWidth, padding),
     height |-> CropHeight(box, imgHeight, padding)]

\* mutant: the original data URL is returned instead of the canvas contents
Cropped_Original(image, rect) == image

\* canvas.toDataURL of the region drawn at faceDetection.ts:107-118
Cropped(image, rect) == [kind |-> "cropped", id |-> image.id, rect |-> rect]

----------------------------------------------------------------------------
(* processImageWithFaceDetection: how the promise settles *)

\* resolve({processedImage: imageDataUrl, faceDetected: false, detection: null})
FallbackOutcome(image) ==
    [settled |-> "resolved", processedImage |-> image, faceDetected |-> FALSE,
     detection |-> NoDetection]

\* mutant: the detection is left out of the successful outcome
CroppedOutcome_NoDetection(croppedImage, det) ==
    [settled |-> "resolved", processedImage |-> croppedImage, faceDetected |-> TRUE,
     detection |-> NoDetection]

\* resolve({processedImage: croppedImage, faceDetected: true, detection})
CroppedOutcome(croppedImage, det) ==
    [settled |-> "resolved", processedImage |-> croppedImage, faceDetected |-> TRUE,
     detection |-> det]

\* loadModels() resolved (Promise<void>)
LoadedOutcome ==
    [settled |-> "resolved", processedImage |-> NoImage, faceDetected |-> FALSE,
     detection |-> NoDetection]

\* reject(new Error('Failed to load image')); loadModels: throw error
RejectedOutcome ==
    [settled |-> "rejected", processedImage |-> NoImage, faceDetected |-> FALSE,
     detection |-> NoDetection]

----------------------------------------------------------------------------
\* the initial values of the useState cells of App, no handler in flight
AppStart ==
    /\ name = ""
    /\ location = ""
    /\ selectedImage = NoImage
    /\ selectedFilter = "classic"
    /\ selectedFont = "serif"
    /\ customOptions = [showBorder |-> TRUE, showReward |-> TRUE,
                        showCornerDecorations |-> TRUE, showSubtitle |-> TRUE,
                        showBottomText |-> TRUE]
    /\ showPoster = FALSE
    /\ isProcessingImage = FALSE
    /\ faceDetected = "null"
    /\ faceDetectionEnabled = TRUE
    /\ originalImage = NoImage
    /\ handlers = [h \in Handlers |-> IdleHandler]
    /\ lastEvent = "none"
    /\ ticket = [i \in Procs |-> 0]
    /\ issued = <<>>
    /\ delivered = <<>>

Init ==
    /\ modelsLoaded = FALSE
    /\ faceapi = FALSE
    /\ pc = [i \in Procs |-> "idle"]
    /\ input = [i \in Procs |-> NoImage]
    /\ detection = [i \in Procs |-> NoDetection]
    /\ crop = [i \in Procs |-> NoRect]
    /\ outcome = [i \in Procs |-> Pending]
    /\ events = [i \in Procs |-> {}]
    /\ call = [i \in Procs |-> "none"]
    /\ fetchCount = 0
    /\ loadCalls = 0
    /\ loadErrors = 0
    /\ cropArgs = [box |-> CHOOSE b \in Boxes : TRUE, imgWidth |-> 1, imgHeight |-> 1,
                   padding |-> DefaultPadding]
    /\ cropRect = NoRect
    /\ AppStart

----------------------------------------------------------------------------
(* Continuations shared by the callbacks of processImageWithFaceDetection *)

\* the returned promise settles: resolve(...) or reject(...) runs, nothing is awaited again
Settle(i, out, ev) ==
    /\ pc' = [pc EXCEPT ![i] = "done"]
    /\ outcome' = [outcome EXCEPT ![i] = out]
    /\ events' = [events EXCEPT ![i] = @ \cup ev]

\* mutant: the error of loadModels / detectSingleFace escapes to the caller
DetectFaceFailed_Propagates(i, ev) ==
    /\ detection' = [detection EXCEPT ![i] = NoDetection]
    /\ Settle(i, RejectedOutcome, ev)
    /\ UNCHANGED <<input, crop, geoVars, appVars, callerVars>>

\* detectFace's catch: console.error, return null; then the else branch of
\* processImageWithFaceDetection resolves with the original image
DetectFaceFailed(i, ev) ==
    /\ detection' = [detection EXCEPT ![i] = NoDetection]
    /\ Settle(i, FallbackOutcome(input[i]), ev)
    /\ UNCHANGED <<input, crop, geoVars, appVars, callerVars>>

\* mutant: the catch of loadModels logs the error and returns
LoadModelsFailed_Swallowed(i, ev) ==
    /\ Settle(i, LoadedOutcome, ev)
    /\ UNCHANGED <<input, detection, crop, geoVars, appVars, callerVars>>

\* the catch of loadModels, called directly: console.error, throw error
LoadModelsFailed(i, ev) ==
    /\ Settle(i, RejectedOutcome, ev)
    /\ UNCHANGED <<input, detection, crop, geoVars, appVars, callerVars>>

\* mutant: the rejection of cropImageToFace is passed on with reject(error)
CropFailed_Rejects(i, ev) ==
    /\ Settle(i, RejectedOutcome, ev)
    /\ UNCHANGED <<modelsLoaded, faceapi, input, detection, geoVars, appVars, callerVars>>

\* the catch of processImageWithFaceDetection after cropImageToFace rejected
CropFailed(i, ev) ==
    /\ Settle(i, FallbackOutcome(input[i]), ev)
    /\ UNCHANGED <<modelsLoaded, faceapi, input, detection, geoVars, appVars, callerVars>>

\* mutant: the if (modelsLoaded) return of loadModels is missing
LoadModelsEntry_NoSkip == IF ~faceapi THEN "importing" ELSE "fetching"

\* loadModels up to its first await: returns at once when modelsLoaded, else awaits
\* the import when faceapi is unset, else calls loadFromUri and awaits it
LoadModelsEntry ==
    IF modelsLoaded THEN "loaded"
    ELSE IF ~faceapi THEN "importing"
    ELSE "fetching"

\* no call is in flight
Quiet == \A j \in Procs : pc[j] \in {"idle", "done"}

----------------------------------------------------------------------------
(* One action per callback / await continuation *)

\* mutant: a new call supersedes the calls in flight, whose promises reject
Invoke_Supersedes(i, image) ==
    /\ pc[i] = "idle"
    /\ pc' = [j \in Procs |->
                IF j = i THEN "decoding"
                ELSE IF pc[j] \in {"idle", "done"} THEN pc[j] ELSE "done"]
    /\ outcome' = [j \in Procs |->
                IF j = i \/ pc[j] \in {"idle", "done"} THEN outcome[j]
                ELSE RejectedOutcome]
    /\ input' = [input EXCEPT ![i] = image]
    /\ call' = [call EXCEPT ![i] = "process"]
    /\ UNCHANGED <<modelsLoaded, faceapi, detection, crop, events, loadVars, geoVars, appVars, callerVars>>

\* processImageWithFaceDetection(imageDataUrl) up to img.src = imageDataUrl
StartProcess(i, image) ==
    /\ pc[i] = "idle"
    /\ pc' = [pc EXCEPT ![i] = "decoding"]
    /\ input' = [input EXCEPT ![i] = image]
    /\ call' = [call EXCEPT ![i] = "process"]
    /\ UNCHANGED <<modelsLoaded, faceapi, detection, crop, outcome, events, loadVars,
                   geoVars, appVars>>

\* processImageWithFaceDetection(imageDataUrl) called, whatever else is in flight
Invoke(i, image) ==
    /\ StartProcess(i, image)
    /\ UNCHANGED callerVars

\* loadModels() called directly
InvokeLoad(i) ==
    /\ pc[i] = "idle"
    /\ loadCalls < MaxLoadCalls
    /\ call' = [call EXCEPT ![i] = "loadModels"]
    /\ loadCalls' = loadCalls + 1
    /\ fetchCount' = IF LoadModelsEntry = "fetching" THEN fetchCount + 1 ELSE fetchCount
    /\ IF LoadModelsEntry = "loaded"
       THEN Settle(i, LoadedOutcome, {"loadSkipped"})
       ELSE /\ pc' = [pc EXCEPT ![i] = LoadModelsEntry]
            /\ UNCHANGED <<outcome, events>>
    /\ UNCHANGED <<modelsLoaded, faceapi, input, detection, crop, loadErrors, geoVars, appVars, callerVars>>

\* the caller of loadModels has its answer and may call again
Return(i) ==
    /\ pc[i] = "done"
    /\ call[i] = "loadModels"
    /\ pc' = [pc EXCEPT ![i] = "idle"]
    /\ call' = [call EXCEPT ![i] = "none"]
    /\ outcome' = [outcome EXCEPT ![i] = Pending]
    /\ events' = [events EXCEPT ![i] = {}]
    /\ UNCHANGED <<modelsLoaded, faceapi, input, detection, crop, loadVars, geoVars, appVars, callerVars>>

\* mutant: detectSingleFace is called without awaiting loadModels
OnLoad_NoAwait(i) ==
    /\ pc[i] = "decoding"
    /\ pc' = [pc EXCEPT ![i] = "inferring"]
    /\ events' = [events EXCEPT ![i] = @ \cup {"decoded"}]
    /\ UNCHANGED <<modelsLoaded, faceapi, input, detection, crop, outcome, call,
                   loadVars, geoVars, appVars, callerVars>>

\* img.onload: detectFace(img) -> loadModels() runs up to its first await
OnLoad(i) ==
    /\ pc[i] = "decoding"
    /\ pc' = [pc EXCEPT ![i] =
                IF LoadModelsEntry = "loaded" THEN "inferring" ELSE LoadModelsEntry]
    /\ events' = [events EXCEPT ![i] = @ \cup {"decoded"}]
    /\ loadCalls' = loadCalls + 1
    /\ fetchCount' = IF LoadModelsEntry = "fetching" THEN fetchCount + 1 ELSE fetchCount
    /\ UNCHANGED <<modelsLoaded, faceapi, input, detection, crop, outcome, call,
                   loadErrors, geoVars, appVars, callerVars>>

\* img.onerror: reject(new Error('Failed to load image'))
OnError(i) ==
    /\ pc[i] = "decoding"
    /\ Settle(i, RejectedOutcome, {"decodeError"})
    /\ UNCHANGED <<modelsLoaded, faceapi, input, detection, crop, call, loadVars,
                   geoVars, appVars, callerVars>>

\* faceapi = await import('face-api.js') resolved; loadFromUri(MODEL_URL) is called
ImportResolved(i) ==
    /\ pc[i] = "importing"
    /\ faceapi' = TRUE
    /\ pc' = [pc EXCEPT ![i] = "fetching"]
    /\ fetchCount' = fetchCount + 1
    /\ UNCHANGED <<modelsLoaded, input, detection, crop, outcome, events, call,
                   loadCalls, loadErrors, geoVars, appVars, callerVars>>

\* the import rejected: loadModels rethrows; detectFace catches, a direct caller
\* gets the error
ImportRejected(i) ==
    /\ pc[i] = "importing"
    /\ IF call[i] = "process"
       THEN DetectFaceFailed(i, {"loadError"})
       ELSE LoadModelsFailed(i, {"loadError"})
    /\ loadErrors' = loadErrors + 1
    /\ UNCHANGED <<modelsLoaded, faceapi, call, fetchCount, loadCalls>>

\* loadFromUri resolved: modelsLoaded = true; loadModels returns, and detectFace goes
\* on to call detectSingleFace
FetchResolved(i) ==
    /\ pc[i] = "fetching"
    /\ modelsLoaded' = TRUE
    /\ IF call[i] = "process"
       THEN /\ pc' = [pc EXCEPT ![i] = "inferring"]
            /\ UNCHANGED <<outcome, events>>
       ELSE Settle(i, LoadedOutcome, {"loaded"})
    /\ UNCHANGED <<faceapi, input, detection, crop, call, loadVars, geoVars, appVars, callerVars>>

\* loadFromUri rejected: loadModels rethrows; detectFace catches, a direct caller
\* gets the error
FetchRejected(i) ==
    /\ pc[i] = "fetching"
    /\ IF call[i] = "process"
       THEN DetectFaceFailed(i, {"loadError"})
       ELSE LoadModelsFailed(i, {"loadError"})
    /\ loadErrors' = loadErrors + 1
    /\ UNCHANGED <<modelsLoaded, faceapi, call, fetchCount, loadCalls>>

\* detectSingleFace resolved with a detection: cropImageToFace(imageDataUrl, detection)
\* is called and sets img.src
InferenceFound(i, b) ==
    /\ pc[i] = "inferring"
    /\ detection' = [detection EXCEPT ![i] = Found(b)]
    /\ pc' = [pc EXCEPT ![i] = "cropLoading"]
    /\ events' = [events EXCEPT ![i] = @ \cup {"found", "cropInvoked"}]
    /\ UNCHANGED <<modelsLoaded, faceapi, input, crop, outcome, call, loadVars, geoVars, appVars, callerVars>>

\* mutant: an undefined detection is taken for a face and handed to cropImageToFace
InferenceNone_Crops(i) ==
    /\ pc[i] = "inferring"
    /\ detection' = [detection EXCEPT ![i] = NoDetection]
    /\ pc' = [pc EXCEPT ![i] = "cropLoading"]
    /\ events' = [events EXCEPT ![i] = @ \cup {"notFound", "cropInvoked"}]
    /\ UNCHANGED <<modelsLoaded, faceapi, input, crop, outcome, call, loadVars, geoVars, appVars, callerVars>>

\* detectSingleFace resolved with undefined: detection || null
InferenceNone(i) ==
    /\ pc[i] = "inferring"
    /\ detection' = [detection EXCEPT ![i] = NoDetection]
    /\ Settle(i, FallbackOutcome(input[i]), {"notFound"})
    /\ UNCHANGED <<modelsLoaded, faceapi, input, crop, call, loadVars, geoVars, appVars, callerVars>>

\* mutant: a failed inference clears the flag so that the next call reloads the model
InferenceRejected_Reloads(i) ==
    /\ pc[i] = "inferring"
    /\ DetectFaceFailed(i, {"inferError"})
    /\ modelsLoaded' = FALSE
    /\ UNCHANGED <<faceapi, call, loadVars>>

\* detectSingleFace rejected: detectFace catches
InferenceRejected(i) ==
    /\ pc[i] = "inferring"
    /\ DetectFaceFailed(i, {"inferError"})
    /\ UNCHANGED <<modelsLoaded, faceapi, call, loadVars>>

\* img.onload inside cropImageToFace: the rectangle is computed, then the 2d context
\* is requested; without one the promise rejects, with one the region is drawn
CropOnLoad(i, ctx) ==
    /\ pc[i] = "cropLoading"
    /\ LET rect == ComputeCrop(detection[i], ImgWidth(input[i]), ImgHeight(input[i]),
                               DefaultPadding)
       IN  /\ crop' = [crop EXCEPT ![i] = rect]
           /\ IF ctx
              THEN /\ Settle(i, CroppedOutcome(Cropped(input[i], rect), detection[i]),
                             {"cropOk"})
                   /\ UNCHANGED <<modelsLoaded, faceapi, input, detection, geoVars, appVars, callerVars>>
              ELSE CropFailed(i, {"cropContextError"})
    /\ UNCHANGED <<call, loadVars>>

\* mutant: the rejection of the inner image load is dropped; the promise never settles
CropOnError_Hangs(i) ==
    /\ pc[i] = "cropLoading"
    /\ pc' = [pc EXCEPT ![i] = "done"]
    /\ events' = [events EXCEPT ![i] = @ \cup {"cropLoadError"}]
    /\ UNCHANGED <<modelsLoaded, faceapi, input, detection, crop, outcome, call,
                   loadVars, geoVars, appVars, callerVars>>

\* img.onerror inside cropImageToFace: reject(new Error('Failed to load image for cropping'))
CropOnError(i) ==
    /\ pc[i] = "cropLoading"
    /\ CropFailed(i, {"cropLoadError"})
    /\ UNCHANGED <<crop, call, loadVars>>

\* the completion, either way, of the operation invocation i awaits
Completion(i) ==
    \/ OnLoad(i)
    \/ OnError(i)
    \/ ImportResolved(i)
    \/ ImportRejected(i)
    \/ FetchResolved(i)
    \/ FetchRejected(i)
    \/ \E b \in Boxes : InferenceFound(i, b)
    \/ InferenceNone(i)
    \/ InferenceRejected(i)
    \/ \E ctx \in BOOLEAN : CropOnLoad(i, ctx)
    \/ CropOnError(i)

Next ==
    \E i \in Procs :
        \/ \E image \in Images : Invoke(i, image)
        \/ InvokeLoad(i)
        \/ OnLoad(i)
        \/ OnError(i)
        \/ ImportResolved(i)
        \/ ImportRejected(i)
        \/ FetchResolved(i)
        \/ FetchRejected(i)
        \/ \E b \in Boxes : InferenceFound(i, b)
        \/ InferenceNone(i)
        \/ InferenceRejected(i)
        \/ \E ctx \in BOOLEAN : CropOnLoad(i, ctx)
        \/ CropOnError(i)

Spec == Init /\ [][Next]_vars

\* one caller of loadModels that awaits each call before it issues the next
SeqNext ==
    \E i \in Procs :
        \/ Quiet /\ InvokeLoad(i)
        \/ Return(i)
        \/ ImportResolved(i)
        \/ ImportRejected(i)
        \/ FetchResolved(i)
        \/ FetchRejected(i)

SeqSpec == Init /\ [][SeqNext]_vars

\* the browser delivers the completion event of every pending operation
FairSpec == Spec /\ \A i \in Procs : WF_vars(Completion(i))

----------------------------------------------------------------------------
(* CallerSpec: processImageWithFaceDetection driven by a sequential caller, the
   premise of the ordering guarantee: a caller that awaits the promise of every call
   and calls again only after it received the outcome.  The function itself tests
   nothing; the form in App.tsx is not such a caller (AppSpec). *)

\* no call is pending or has an outcome the caller has not received yet
NoneOutstanding == \A j \in Procs : pc[j] = "idle"

\* processImageWithFaceDetection(image) is called and returns its promise; the call
\* is numbered in invocation order
CallProcess(i, image) ==
    /\ Len(issued) < MaxProcessCalls
    /\ StartProcess(i, image)
    /\ ticket' = [ticket EXCEPT ![i] = Len(issued) + 1]
    /\ issued' = Append(issued, image.id)
    /\ UNCHANGED delivered

\* mutant: the settled promise hands its outcome on and stays settled, so the same
\* outcome can be handed on again
Deliver_Again(i) ==
    /\ pc[i] = "done"
    /\ call[i] = "process"
    /\ Len(delivered) < MaxProcessCalls
    /\ delivered' = Append(delivered, [ticket |-> ticket[i], id |-> input[i].id,
                                       settled |-> outcome[i].settled])
    /\ UNCHANGED <<pipeVars, geoVars, appVars, ticket, issued>>

\* the promise returned at faceDetection.ts:140, settled by its one resolve or reject,
\* hands the outcome to whoever awaits it, once; the invocation is over
Deliver(i) ==
    /\ pc[i] = "done"
    /\ call[i] = "process"
    /\ delivered' = Append(delivered, [ticket |-> ticket[i], id |-> input[i].id,
                                       settled |-> outcome[i].settled])
    /\ pc' = [pc EXCEPT ![i] = "idle"]
    /\ call' = [call EXCEPT ![i] = "none"]
    /\ input' = [input EXCEPT ![i] = NoImage]
    /\ detection' = [detection EXCEPT ![i] = NoDetection]
    /\ crop' = [crop EXCEPT ![i] = NoRect]
    /\ outcome' = [outcome EXCEPT ![i] = Pending]
    /\ events' = [events EXCEPT ![i] = {}]
    /\ ticket' = [ticket EXCEPT ![i] = 0]
    /\ UNCHANGED <<modelsLoaded, faceapi, loadVars, geoVars, appVars, issued>>

CallerNext ==
    \E i \in Procs :
        \/ \E image \in Images : NoneOutstanding /\ CallProcess(i, image)
        \/ Deliver(i)
        \/ OnLoad(i)
        \/ OnError(i)
        \/ ImportResolved(i)
        \/ ImportRejected(i)
        \/ FetchResolved(i)
        \/ FetchRejected(i)
        \/ \E b \in Boxes : InferenceFound(i, b)
        \/ InferenceNone(i)
        \/ InferenceRejected(i)
        \/ \E ctx \in BOOLEAN : CropOnLoad(i, ctx)
        \/ CropOnError(i)

CallerSpec == Init /\ [][CallerNext]_vars

----------------------------------------------------------------------------
(* CropSpec: cropImageToFace called on bounded inputs, the pipeline idle *)

GeoBoxes == [x : 0..MaxSide, y : 0..MaxSide, width : 1..MaxSide, height : 1..MaxSide]

Paddings == (10..MaxPadTenths) \cup {DefaultPadding}

\* image 1000x800, box {400,300,120,160}, padding 1.8
ScenarioInterior ==
    [box |-> [x |-> 400, y |-> 300, width |-> 120, height |-> 160],
     imgWidth |-> 1000, imgHeight |-> 800, padding |-> DefaultPadding]

\* image 1000x800, box {10,10,100,100}, padding 1.8
ScenarioCorner ==
    [box |-> [x |-> 10, y |-> 10, width |-> 100, height |-> 100],
     imgWidth |-> 1000, imgHeight |-> 800, padding |-> DefaultPadding]

CropInputs ==
    [box : GeoBoxes, imgWidth : 1..MaxSide, imgHeight : 1..MaxSide, padding : Paddings]
        \cup {ScenarioInterior, ScenarioCorner}

CropInit ==
    /\ modelsLoaded = FALSE
    /\ faceapi = FALSE
    /\ pc = [i \in Procs |-> "idle"]
    /\ input = [i \in Procs |-> NoImage]
    /\ detection = [i \in Procs |-> NoDetection]
    /\ crop = [i \in Procs |-> NoRect]
    /\ outcome = [i \in Procs |-> Pending]
    /\ events = [i \in Procs |-> {}]
    /\ call = [i \in Procs |-> "none"]
    /\ fetchCount = 0
    /\ loadCalls = 0
    /\ loadErrors = 0
    /\ cropArgs \in CropInputs
    /\ cropRect = NoRect
    /\ AppStart

\* img.onload of cropImageToFace(imageDataUrl, detection, padding), lines 79-95
CropImageToFace ==
    /\ cropRect = NoRect
    /\ cropRect' = ComputeCrop(cropArgs.box, cropArgs.imgWidth, cropArgs.imgHeight,
                               cropArgs.padding)
    /\ UNCHANGED <<pipeVars, cropArgs, appVars, callerVars>>

CropNext == CropImageToFace

CropSpec == CropInit /\ [][CropNext]_vars

----------------------------------------------------------------------------
(* AppSpec: the App component (src/src/App.tsx).  A handler reads the state of the
   render in which it was called; what it reads after an await is what its closure
   captured then. *)

\* the branch at App.tsx:184: the PosterGenerator is rendered instead of the form
PreviewShown == showPoster /\ selectedImage # NoImage

FormShown == ~PreviewShown

InFlight(h) == handlers[h].pc # "idle"

NoneInFlight == \A h \in Handlers : ~InFlight(h)

\* what a call processImageWithFaceDetection(image) can settle with: the fallback,
\* the crop around the detected face, or the rejection of img.onerror; a null
\* data URL (img.src = null) does not decode
ProcessOutcomes(image) ==
    IF image = NoImage
    THEN {RejectedOutcome}
    ELSE {FallbackOutcome(image),
          CroppedOutcome(Cropped(image, ComputeCrop(FaceBox, ImgWidth(image),
                                                    ImgHeight(image), DefaultPadding)),
                         Found(FaceBox)),
          RejectedOutcome}

\* onChange of the Title / Name input: setName(e.target.value)
SetName(v) ==
    /\ FormShown
    /\ v # name
    /\ name' = v
    /\ lastEvent' = "edit"
    /\ UNCHANGED <<location, selectedFilter, selectedFont, customOptions, imageVars,
                   showPoster, handlers, pipeVars, geoVars, callerVars>>

\* onChange of the Subtitle / Location input: setLocation(e.target.value)
SetLocation(v) ==
    /\ FormShown
    /\ v # location
    /\ location' = v
    /\ lastEvent' = "edit"
    /\ UNCHANGED <<name, selectedFilter, selectedFont, customOptions, imageVars,
                   showPoster, handlers, pipeVars, geoVars, callerVars>>

\* onFilterChange={setSelectedFilter}
SetSelectedFilter(f) ==
    /\ FormShown
    /\ f # selectedFilter
    /\ selectedFilter' = f
    /\ lastEvent' = "edit"
    /\ UNCHANGED <<name, location, selectedFont, customOptions, imageVars,
                   showPoster, handlers, pipeVars, geoVars, callerVars>>

\* onFontChange={setSelectedFont}
SetSelectedFont(f) ==
    /\ FormShown
    /\ f # selectedFont
    /\ selectedFont' = f
    /\ lastEvent' = "edit"
    /\ UNCHANGED <<name, location, selectedFilter, customOptions, imageVars,
                   showPoster, handlers, pipeVars, geoVars, callerVars>>

\* handleCustomOptionChange(option, value): prev => ({...prev, [option]: value})
HandleCustomOptionChange(option, value) ==
    /\ FormShown
    /\ value # customOptions[option]
    /\ customOptions' = [customOptions EXCEPT ![option] = value]
    /\ lastEvent' = "edit"
    /\ UNCHANGED <<name, location, selectedFilter, selectedFont, imageVars,
                   showPoster, handlers, pipeVars, geoVars, callerVars>>

\* handleImageUpload up to reader.readAsDataURL(file): the file input is not disabled
\* while an image is processed; the closure of onloadend keeps faceDetectionEnabled
\* of this render
HandleImageUpload(h, file) ==
    /\ FormShown
    /\ ~InFlight(h)
    /\ faceDetected' = "null"
    /\ isProcessingImage' = TRUE
    /\ handlers' = [handlers EXCEPT ![h] =
                      [pc |-> "reading", kind |-> "upload", image |-> file,
                       enabled |-> faceDetectionEnabled]]
    /\ lastEvent' = "upload"
    /\ UNCHANGED <<formVars, selectedImage, faceDetectionEnabled, originalImage,
                   showPoster, pipeVars, geoVars, callerVars>>

\* reader.onloadend up to its first await.  loadend follows a failed read as well,
\* with reader.result null.  With detection captured as enabled the pipeline is
\* called; otherwise the else branch and the finally run at once
ReaderLoadEnd(h, ok) ==
    /\ handlers[h].pc = "reading"
    /\ LET imageDataUrl == IF ok THEN handlers[h].image ELSE NoImage
       IN  /\ originalImage' = imageDataUrl
           /\ IF handlers[h].enabled
              THEN /\ handlers' = [handlers EXCEPT ![h].pc = "processing",
                                                   ![h].image = imageDataUrl]
                   /\ UNCHANGED <<selectedImage, faceDetected, isProcessingImage>>
              ELSE /\ selectedImage' = imageDataUrl
                   /\ faceDetected' = "null"
                   /\ isProcessingImage' = FALSE
                   /\ handlers' = [handlers EXCEPT ![h] = IdleHandler]
    /\ lastEvent' = "readEnd"
    /\ UNCHANGED <<formVars, faceDetectionEnabled, showPoster, pipeVars, geoVars, callerVars>>

\* handleFaceDetectionToggle(e.target.checked) up to its first await; the checkbox is
\* disabled while isProcessingImage.  Toggled on with an image, the pipeline is called
\* on the originalImage of this render; toggled off, the else branch and the finally
\* run at once
HandleFaceDetectionToggle(h, enabled) ==
    /\ FormShown
    /\ ~isProcessingImage
    /\ ~InFlight(h)
    /\ enabled # faceDetectionEnabled
    /\ faceDetectionEnabled' = enabled
    /\ IF originalImage # NoImage
       THEN IF enabled
            THEN /\ isProcessingImage' = TRUE
                 /\ faceDetected' = "null"
                 /\ handlers' = [handlers EXCEPT ![h] =
                                   [pc |-> "processing", kind |-> "toggle",
                                    image |-> originalImage, enabled |-> enabled]]
                 /\ UNCHANGED selectedImage
            ELSE /\ selectedImage' = originalImage
                 /\ faceDetected' = "null"
                 /\ isProcessingImage' = FALSE
                 /\ UNCHANGED handlers
       ELSE UNCHANGED <<selectedImage, faceDetected, isProcessingImage, handlers>>
    /\ lastEvent' = "toggle"
    /\ UNCHANGED <<formVars, originalImage, showPoster, pipeVars, geoVars, callerVars>>

\* the awaited call resolved: setSelectedImage(result.processedImage),
\* setFaceDetected(result.faceDetected), then the finally
ProcessResolved(h, result) ==
    /\ handlers[h].pc = "processing"
    /\ result \in ProcessOutcomes(handlers[h].image)
    /\ result.settled = "resolved"
    /\ selectedImage' = result.processedImage
    /\ faceDetected' = Tri(result.faceDetected)
    /\ isProcessingImage' = FALSE
    /\ handlers' = [handlers EXCEPT ![h] = IdleHandler]
    /\ lastEvent' = "resolved"
    /\ UNCHANGED <<formVars, faceDetectionEnabled, originalImage, showPoster,
                   pipeVars, geoVars, callerVars>>

\* mutant: no catch around the awaited call; the rejection ends the handler
ProcessRejected_Uncaught(h) ==
    /\ handlers[h].pc = "processing"
    /\ RejectedOutcome \in ProcessOutcomes(handlers[h].image)
    /\ handlers' = [handlers EXCEPT ![h] = IdleHandler]
    /\ lastEvent' = IF handlers[h].kind = "upload" THEN "uploadRejected"
                    ELSE "toggleRejected"
    /\ UNCHANGED <<formVars, imageVars, showPoster, pipeVars, geoVars, callerVars>>

\* the awaited call rejected: the catch sets the image the handler passed in and
\* faceDetected false, then the finally
ProcessRejected(h) ==
    /\ handlers[h].pc = "processing"
    /\ RejectedOutcome \in ProcessOutcomes(handlers[h].image)
    /\ selectedImage' = handlers[h].image
    /\ faceDetected' = "false"
    /\ isProcessingImage' = FALSE
    /\ handlers' = [handlers EXCEPT ![h] = IdleHandler]
    /\ lastEvent' = IF handlers[h].kind = "upload" THEN "uploadRejected"
                    ELSE "toggleRejected"
    /\ UNCHANGED <<formVars, faceDetectionEnabled, originalImage, showPoster,
                   pipeVars, geoVars, callerVars>>

\* handleGeneratePoster: if (name && selectedImage) setShowPoster(true)
HandleGeneratePoster ==
    /\ FormShown
    /\ showPoster' = IF name # "" /\ selectedImage # NoImage THEN TRUE ELSE showPoster
    /\ lastEvent' = "generate"
    /\ UNCHANGED <<formVars, imageVars, handlers, pipeVars, geoVars, callerVars>>

\* mutant: going back clears the form
HandleReset_ClearsForm ==
    /\ PreviewShown
    /\ showPoster' = FALSE
    /\ name' = ""
    /\ location' = ""
    /\ selectedImage' = NoImage
    /\ lastEvent' = "reset"
    /\ UNCHANGED <<selectedFilter, selectedFont, customOptions, isProcessingImage,
                   faceDetected, faceDetectionEnabled, originalImage, handlers,
                   pipeVars, geoVars, callerVars>>

\* handleReset, the onBack of the PosterGenerator: setShowPoster(false)
HandleReset ==
    /\ PreviewShown
    /\ showPoster' = FALSE
    /\ lastEvent' = "reset"
    /\ UNCHANGED <<formVars, imageVars, handlers, pipeVars, geoVars, callerVars>>

AppNext ==
    \/ \E v \in Names : SetName(v)
    \/ \E v \in Locations : SetLocation(v)
    \/ \E f \in Filters : SetSelectedFilter(f)
    \/ \E f \in Fonts : SetSelectedFont(f)
    \/ \E option \in ToggledOptions, value \in BOOLEAN :
           HandleCustomOptionChange(option, value)
    \/ \E h \in Handlers, file \in Files : HandleImageUpload(h, file)
    \/ \E h \in Handlers, ok \in BOOLEAN : ReaderLoadEnd(h, ok)
    \/ \E h \in Handlers, enabled \in BOOLEAN : HandleFaceDetectionToggle(h, enabled)
    \/ \E h \in Handlers :
           \E result \in ProcessOutcomes(handlers[h].image) : ProcessResolved(h, result)
    \/ \E h \in Handlers : ProcessRejected(h)
    \/ HandleGeneratePoster
    \/ HandleReset

AppSpec == Init /\ [][AppNext]_vars

----------------------------------------------------------------------------
(* Properties of processImageWithFaceDetection, checked under Spec *)

Settled(i) == outcome[i].settled # "pending"

\* C1: processImageWithFaceDetection never rejects: every invocation that settles
\* resolves with an outcome, whatever failure was injected.
C1_NeverRejects ==
    \A i \in Procs :
        (call[i] = "process" /\ Settled(i)) => outcome[i].settled = "resolved"

\* C2: when the input cannot be decoded (img.onerror of the orchestrator's own image),
\* the invocation resolves with the original input and faceDetected = false.
C2_DecodeErrorFallsBack ==
    \A i \in Procs :
        "decodeError" \in events[i] =>
            /\ outcome[i].settled = "resolved"
            /\ outcome[i].processedImage = input[i]
            /\ outcome[i].faceDetected = FALSE

\* C3: when the model load (import or fetch) or the inference fails, detectFace
\* reports no detection, and the invocation resolves with the original input and
\* faceDetected = false without the crop step having been invoked.
C3_DetectorFailureFallsBack ==
    \A i \in Procs :
        (call[i] = "process" /\ {"loadError", "inferError"} \cap events[i] # {}) =>
            /\ detection[i] = NoDetection
            /\ pc[i] = "done"
            /\ outcome[i].settled = "resolved"
            /\ outcome[i].processedImage = input[i]
            /\ outcome[i].faceDetected = FALSE
            /\ "cropInvoked" \notin events[i]
            /\ crop[i] = NoRect

C3_Witness ==
    \E i, j \in Procs :
        /\ "loadError" \in events[i]
        /\ "inferError" \in events[j]
        /\ Settled(i) /\ Settled(j)

\* C4: when a face was found but the crop step fails (no 2d context, or the image
\* fails to load inside cropImageToFace), the invocation resolves with the original
\* input and faceDetected = false.
C4_CropFailureFallsBack ==
    \A i \in Procs :
        ({"cropContextError", "cropLoadError"} \cap events[i] # {}) =>
            /\ "found" \in events[i]
            /\ detection[i].found
            /\ pc[i] = "done"
            /\ outcome[i].settled = "resolved"
            /\ outcome[i].processedImage = input[i]
            /\ outcome[i].faceDetected = FALSE

C4_Witness ==
    \E i, j \in Procs :
        /\ "cropContextError" \in events[i]
        /\ "cropLoadError" \in events[j]
        /\ Settled(i) /\ Settled(j)

\* C5: when the detector reports no face for a decodable image, the invocation
\* resolves with processedImage identical to the input and faceDetected = false,
\* and the crop step is not run.
C5_NoDetectionPassthrough ==
    \A i \in Procs :
        "notFound" \in events[i] =>
            /\ "decoded" \in events[i]
            /\ pc[i] = "done"
            /\ outcome[i].settled = "resolved"
            /\ outcome[i].processedImage = input[i]
            /\ outcome[i].processedImage \in Images
            /\ outcome[i].faceDetected = FALSE
            /\ "cropInvoked" \notin events[i]
            /\ crop[i] = NoRect

C5_Witness ==
    \E i \in Procs : "notFound" \in events[i] /\ Settled(i) /\ modelsLoaded

\* C6: when a face was found and the crop succeeds, the invocation resolves with the
\* buffer the crop step produced and faceDetected = true; faceDetected is true in an
\* outcome only if processedImage is a crop-step output.
C6_FoundAndCropped ==
    \A i \in Procs :
        /\ "cropOk" \in events[i] =>
              /\ "found" \in events[i]
              /\ outcome[i].settled = "resolved"
              /\ outcome[i].faceDetected = TRUE
              /\ outcome[i].processedImage =
                     [kind |-> "cropped", id |-> input[i].id, rect |-> crop[i]]
              /\ crop[i] # NoRect
        /\ outcome[i].faceDetected =>
              /\ "cropOk" \in events[i]
              /\ outcome[i].processedImage.kind = "cropped"
              /\ outcome[i].processedImage # input[i]

C6_Witness ==
    \E i \in Procs : "cropOk" \in events[i] /\ outcome[i].faceDetected

----------------------------------------------------------------------------
(* Properties of the crop rectangle, checked under CropSpec.  Lengths below are in
   1/Unit pixel: W, H the image sides, cx, cy the face center, size the target side
   max(box.width, box.height) * padding, half its half. *)

Computed == cropRect # NoRect

ArgW == Unit * cropArgs.imgWidth

ArgH == Unit * cropArgs.imgHeight

ArgCx == Unit * cropArgs.box.x + (Unit \div 2) * cropArgs.box.width

ArgCy == Unit * cropArgs.box.y + (Unit \div 2) * cropArgs.box.height

ArgLarger ==
    IF cropArgs.box.width > cropArgs.box.height
    THEN cropArgs.box.width ELSE cropArgs.box.height

ArgSize == (Unit \div 10) * ArgLarger * cropArgs.padding

ArgHalf == (Unit \div 20) * ArgLarger * cropArgs.padding

BoxInsideImage ==
    /\ cropArgs.box.x >= 0
    /\ cropArgs.box.y >= 0
    /\ cropArgs.box.width > 0
    /\ cropArgs.box.height > 0
    /\ cropArgs.box.x + cropArgs.box.width <= cropArgs.imgWidth
    /\ cropArgs.box.y + cropArgs.box.height <= cropArgs.imgHeight

InsideImage ==
    /\ cropRect.x >= 0
    /\ cropRect.y >= 0
    /\ cropRect.x + cropRect.width <= ArgW
    /\ cropRect.y + cropRect.height <= ArgH

\* C7: crop containment: for every box inside the image and every padding >= 1 the
\* rectangle has x, y >= 0, x + width <= W, y + height <= H, width > 0, height > 0.
C7_CropContainment ==
    (Computed /\ BoxInsideImage /\ cropArgs.padding >= 10) =>
        /\ InsideImage
        /\ cropRect.width > 0
        /\ cropRect.height > 0

\* a box inside the image whose crop is clamped at the left and clipped at the right
C7_Witness ==
    /\ Computed
    /\ BoxInsideImage
    /\ cropArgs.padding > 10
    /\ cropRect.x = 0
    /\ cropRect.x + cropRect.width = ArgW
    /\ cropRect.width < ArgSize

\* C8: the rectangle equals the reference algorithm: cropSize = max(w, h) * padding,
\* cropX = max(0, centerX - cropSize/2), cropY = max(0, centerY - cropSize/2),
\* cropWidth = min(cropSize, W - cropX), cropHeight = min(cropSize, H - cropY);
\* 1000x800 with box {400,300,120,160} and padding 1.8 gives {316,236,288,288},
\* and box {10,10,100,100} gives {0,0,180,180}.
C8_CropMatchesReference ==
    Computed =>
        LET refX == IF ArgCx - ArgHalf > 0 THEN ArgCx - ArgHalf ELSE 0
            refY == IF ArgCy - ArgHalf > 0 THEN ArgCy - ArgHalf ELSE 0
            refW == IF ArgSize < ArgW - refX THEN ArgSize ELSE ArgW - refX
            refH == IF ArgSize < ArgH - refY THEN ArgSize ELSE ArgH - refY
        IN  /\ cropRect = [x |-> refX, y |-> refY, width |-> refW, height |-> refH]
            /\ cropArgs = ScenarioInterior =>
                   cropRect = [x |-> 316 * Unit, y |-> 236 * Unit,
                               width |-> 288 * Unit, height |-> 288 * Unit]
            /\ cropArgs = ScenarioCorner =>
                   cropRect = [x |-> 0, y |-> 0,
                               width |-> 180 * Unit, height |-> 180 * Unit]

C8_Witness == Computed /\ cropArgs = ScenarioCorner

Interior ==
    /\ ArgCx >= ArgHalf
    /\ ArgW - ArgCx >= ArgHalf
    /\ ArgCy >= ArgHalf
    /\ ArgH - ArgCy >= ArgHalf

\* C9: square crop: when the face center is at least cropSize/2 from all four edges,
\* width = height = max(box.width, box.height) * padding and the rectangle is
\* centered on the face center.
C9_SquareCrop ==
    (Computed /\ Interior) =>
        /\ cropRect.width = ArgSize
        /\ cropRect.height = ArgSize
        /\ 2 * cropRect.x + cropRect.width = 2 * ArgCx
        /\ 2 * cropRect.y + cropRect.height = 2 * ArgCy

C9_Witness ==
    /\ Computed
    /\ Interior
    /\ cropArgs.box.width # cropArgs.box.height
    /\ cropArgs.padding > 10
    /\ cropRect.x > 0
    /\ cropRect.y > 0

NearLeft == ArgCx < ArgHalf

NearRight == ArgW - ArgCx < ArgHalf

NearTop == ArgCy < ArgHalf

NearBottom == ArgH - ArgCy < ArgHalf

\* C10 as claimed: whenever the face center is less than cropSize/2 from any edge
\* (left, right, top or bottom), the width or the height is strictly smaller than
\* cropSize.
C10_ClippedNearAnyEdge ==
    (Computed /\ (NearLeft \/ NearRight \/ NearTop \/ NearBottom)) =>
        (cropRect.width < ArgSize \/ cropRect.height < ArgSize)

\* C10 amended: a center less than cropSize/2 from the right (bottom) edge gives a
\* width (height) strictly smaller than cropSize; a center less than cropSize/2 from
\* the left (top) edge clamps x (y) to 0 and gives width min(cropSize, W) (height
\* min(cropSize, H)); in every case the rectangle stays within the image bounds.
C10_EdgeClip ==
    Computed =>
        /\ NearRight => cropRect.width < ArgSize
        /\ NearBottom => cropRect.height < ArgSize
        /\ NearLeft =>
              /\ cropRect.x = 0
              /\ cropRect.width = (IF ArgSize < ArgW THEN ArgSize ELSE ArgW)
        /\ NearTop =>
              /\ cropRect.y = 0
              /\ cropRect.height = (IF ArgSize < ArgH THEN ArgSize ELSE ArgH)
        /\ InsideImage

\* near the left edge with headroom on the right (not clipped), near the bottom edge
\* (clipped)
C10_Witness ==
    /\ Computed
    /\ BoxInsideImage
    /\ NearLeft /\ ~NearRight
    /\ cropRect.width = ArgSize
    /\ NearBottom /\ ~NearTop
    /\ cropRect.height < ArgSize

----------------------------------------------------------------------------
(* Properties of loadModels and of the invocation life cycle *)

\* C11 as claimed: after any N >= 1 sequential loadModels calls have completed,
\* loadFromUri has been called exactly once.
C11_ExactlyOneFetch ==
    (Quiet /\ loadCalls >= 1) => fetchCount = 1

\* C11 amended: over N >= 1 sequential loadModels calls loadFromUri is called exactly
\* once when no import or fetch fails; each failed call leaves the flag unset and
\* costs at most one fetch, the next call fetching again; once the flag is set, later
\* calls return immediately and no fetch is issued any more.
C11_OneFetchUntilLoaded ==
    /\ [](Quiet =>
            /\ (loadCalls >= 1 /\ loadErrors = 0) => (fetchCount = 1 /\ modelsLoaded)
            /\ fetchCount >= (IF modelsLoaded THEN 1 ELSE 0)
            /\ fetchCount <= loadErrors + (IF modelsLoaded THEN 1 ELSE 0))
    /\ [][modelsLoaded =>
            /\ fetchCount' = fetchCount
            /\ \A i \in Procs :
                  (pc[i] = "idle" /\ pc'[i] # "idle") =>
                      (pc'[i] = "done" /\ outcome'[i].settled = "resolved")]_vars

\* a failed call, a call that fetched, and a later call that returned at once
C11_Witness ==
    /\ Quiet
    /\ loadCalls = MaxLoadCalls
    /\ loadErrors = 1
    /\ fetchCount = 2
    /\ modelsLoaded
    /\ \E i \in Procs : "loadSkipped" \in events[i]

\* C12: overlapping loadModels callers attach to the pending load: when no load
\* fails, at most one loadFromUri is issued under every interleaving.
C12_AtMostOneFetch ==
    loadErrors = 0 => fetchCount <= 1

\* C13: modelsLoaded is monotone: once true it stays true in every later state.
C13_ReadinessMonotone ==
    [][modelsLoaded => modelsLoaded']_vars

\* the flag is set and both a later load and a later inference have failed
C13_Witness ==
    /\ modelsLoaded
    /\ \E i, j \in Procs : "inferError" \in events[i] /\ "loadError" \in events[j]

\* C14: a crop rectangle is computed and the crop step entered only in an invocation
\* whose detection is Found; never after NotFound or a detector failure.
C14_CropOnlyWhenFound ==
    \A i \in Procs :
        /\ (pc[i] = "cropLoading" \/ "cropInvoked" \in events[i] \/ crop[i] # NoRect) =>
              /\ call[i] = "process"
              /\ detection[i].found
              /\ "found" \in events[i]
        /\ ({"notFound", "loadError", "inferError"} \cap events[i] # {}) =>
              /\ pc[i] # "cropLoading"
              /\ "cropInvoked" \notin events[i]
              /\ crop[i] = NoRect

C14_Witness ==
    \E i, j \in Procs :
        /\ crop[i] # NoRect
        /\ detection[i].found
        /\ "notFound" \in events[j]
        /\ crop[j] = NoRect

\* the state of the orchestrator's state machine an invocation is in
Phase(p) ==
    IF p \in {"idle", "decoding"} THEN "Idle"
    ELSE IF p \in {"importing", "fetching", "inferring"} THEN "Detecting"
    ELSE IF p = "cropLoading" THEN "Cropping"
    ELSE "Done"

\* Cropping -> Done and Detecting -> Done with the original image are the Fallback
\* transition, Cropping -> Done with the cropped image the successful one
PhaseSteps ==
    {<<"Idle", "Detecting">>, <<"Detecting", "Cropping">>, <<"Detecting", "Done">>,
     <<"Cropping", "Done">>}

\* C15: each process invocation moves only along Idle -> Detecting -> (Cropping |
\* Fallback) -> Done; detection is requested only after the decode completed; Done is
\* terminal and the outcome never changes once settled.
C15_PhaseOrder ==
    [][\A i \in Procs :
          call'[i] = "process" =>
              /\ Phase(pc'[i]) # Phase(pc[i]) =>
                    <<Phase(pc[i]), Phase(pc'[i])>> \in PhaseSteps
              /\ Phase(pc'[i]) = "Detecting" => "decoded" \in events'[i]
              /\ Phase(pc[i]) = "Done" =>
                    (pc'[i] = pc[i] /\ outcome'[i] = outcome[i])
              /\ (outcome[i].settled = "pending" /\ outcome'[i].settled # "pending") =>
                    Phase(pc'[i]) = "Done"]_vars

\* C16: detectFace awaits loadModels before inference: detectSingleFace is invoked
\* only with modelsLoaded true, and never in an invocation whose load failed.
C16_InferenceAfterLoad ==
    \A i \in Procs :
        /\ pc[i] = "inferring" => (modelsLoaded /\ faceapi)
        /\ ({"found", "notFound", "inferError"} \cap events[i] # {}) => modelsLoaded
        /\ "loadError" \in events[i] =>
              {"found", "notFound", "inferError"} \cap events[i] = {}

C16_Witness ==
    \E i, j \in Procs :
        /\ pc[i] = "inferring"
        /\ call[j] = "process"
        /\ "loadError" \in events[j]

\* C17: loadModels completes successfully only with modelsLoaded true; when the
\* import or the fetch fails it fails to its caller, and that call does not set
\* modelsLoaded.
C17_LoadModelsContract ==
    /\ [](\A i \in Procs :
            call[i] = "loadModels" =>
                /\ outcome[i].settled = "resolved" => modelsLoaded
                /\ "loadError" \in events[i] => outcome[i].settled = "rejected")
    /\ [][\A i \in Procs :
            ("loadError" \in events'[i] /\ "loadError" \notin events[i]) =>
                modelsLoaded' = modelsLoaded]_vars

C17_Witness ==
    \E i, j \in Procs :
        /\ call[i] = "loadModels" /\ outcome[i].settled = "rejected"
        /\ call[j] = "loadModels" /\ outcome[j].settled = "resolved"
        /\ "loaded" \in events[j]

\* what invocation i resolves or rejects with, from its own input and the responses
\* it received
OwnOutcome(i) ==
    IF "decodeError" \in events[i]
    THEN [settled |-> "rejected", processedImage |-> NoImage, faceDetected |-> FALSE,
          detection |-> NoDetection]
    ELSE IF "cropOk" \in events[i]
    THEN [settled |-> "resolved",
          processedImage |->
              [kind |-> "cropped", id |-> input[i].id,
               rect |-> ComputeCrop(detection[i], ImgWidth(input[i]),
                                    ImgHeight(input[i]), DefaultPadding)],
          faceDetected |-> TRUE, detection |-> detection[i]]
    ELSE [settled |-> "resolved", processedImage |-> input[i], faceDetected |-> FALSE,
          detection |-> NoDetection]

\* C18: overlapping process invocations are independent: no step of one call changes
\* the state or the outcome of another, no call is rejected or cancelled because of
\* another, and each outcome is determined by the call's own input and the responses
\* to that call.
C18_InvocationsIndependent ==
    /\ [](\A i \in Procs :
            call[i] = "process" =>
                /\ Settled(i) => outcome[i] = OwnOutcome(i)
                /\ pc[i] = "done" <=> Settled(i))
    /\ [][\A i \in Procs :
            pc'[i] = pc[i] =>
                /\ outcome'[i] = outcome[i]
                /\ input'[i] = input[i]
                /\ detection'[i] = detection[i]
                /\ crop'[i] = crop[i]
                /\ events'[i] = events[i]]_vars
    /\ [][Cardinality({i \in Procs : pc'[i] # pc[i]}) <= 1]_vars

\* two process calls in flight at once, one still fetching while the other crops
C18_Witness ==
    \E i, j \in Procs :
        /\ call[i] = "process" /\ pc[i] = "cropLoading"
        /\ call[j] = "process" /\ pc[j] = "fetching"
        /\ input[i] # input[j]

\* C19: an invocation settles if and only if the operations it awaits complete:
\* with every awaited operation completing, every invocation eventually settles, and
\* an invocation leaves an await, or settles, only in the step that completes the
\* awaited operation (there is no timeout).
C19_SettlesWhenOperationsComplete ==
    /\ \A i \in Procs : (pc[i] # "idle") ~> Settled(i)
    /\ [][\A i \in Procs :
            (pc[i] \notin {"idle", "done"} /\ (pc'[i] # pc[i] \/ Settled(i)')) =>
                Completion(i)]_vars

C19_Witness ==
    \E i, j \in Procs :
        /\ Settled(i) /\ "cropOk" \in events[i]
        /\ Settled(j) /\ "inferError" \in events[j]

\* C20: for a single caller that issues process calls sequentially, outcomes are
\* delivered in invocation order: the k-th outcome the caller receives is the outcome
\* of its k-th call, each call's outcome arrives once, and no outcome is outstanding
\* when the next call is issued.
C20_DeliveredInInvocationOrder ==
    /\ Len(delivered) <= Len(issued)
    /\ \A k \in 1..Len(delivered) :
          /\ delivered[k].ticket = k
          /\ delivered[k].id = issued[k]
          /\ delivered[k].settled \in {"resolved", "rejected"}
    /\ NoneOutstanding <=> Len(delivered) = Len(issued)

\* three calls on different images, one of them rejected, all delivered
C20_Witness ==
    /\ Len(delivered) = MaxProcessCalls
    /\ delivered[1].id # delivered[2].id
    /\ delivered[1].settled = "rejected"
    /\ delivered[2].settled = "resolved"
    /\ fetchCount >= 2

----------------------------------------------------------------------------
(* Properties of the App component, checked under AppSpec *)

\* what the pipeline can resolve with for the current originalImage
ProcessedOriginal ==
    {r.processedImage : r \in {o \in ProcessOutcomes(originalImage) :
                                   o.settled = "resolved"}}

\* C21: latest wins in the UI layer: after any sequence of uploads and toggles, once no
\* call is in flight the displayed selectedImage is the current originalImage or the
\* processed result of the current originalImage.
C21_LatestWins ==
    NoneInFlight => selectedImage \in {originalImage} \cup ProcessedOriginal

\* C22: isProcessingImage is true in every state in which a handler has a file read or
\* a pipeline call in flight (so the disabled checkbox cannot be toggled then), and
\* false once all handlers in flight have finished.
C22_BusyWhileInFlight ==
    isProcessingImage <=> (\E h \in Handlers : InFlight(h))

\* C23: when the pipeline call rejects during an upload or a toggle-on reprocess, the
\* handler sets selectedImage to the uncropped image it had passed in and faceDetected
\* to false, and clears isProcessingImage.
C23_RejectionRecovered ==
    /\ [][\A h \in Handlers :
            (handlers[h].pc = "processing" /\ ~InFlight(h)'
                 /\ lastEvent' \in {"uploadRejected", "toggleRejected"}) =>
                /\ selectedImage' = handlers[h].image
                /\ selectedImage' \in Files \cup {NoImage}
                /\ handlers[h].kind = "toggle" => selectedImage' # NoImage
                /\ faceDetected' = "false"
                /\ ~isProcessingImage']_vars
    /\ [](lastEvent \in {"uploadRejected", "toggleRejected"} =>
            /\ faceDetected = "false"
            /\ ~isProcessingImage
            /\ selectedImage \in Files \cup {NoImage})

\* an upload whose pipeline call rejected: the uploaded image is shown uncropped
C23_Witness ==
    /\ lastEvent = "uploadRejected"
    /\ NoneInFlight
    /\ selectedImage \in Files
    /\ selectedImage = originalImage
    /\ faceDetected = "false"
    /\ ~isProcessingImage

\* C24: whenever face detection is disabled, an image has been uploaded and no handler
\* is in flight, selectedImage equals originalImage and faceDetected is null.
C24_DisabledShowsOriginal ==
    (~faceDetectionEnabled /\ originalImage # NoImage /\ NoneInFlight) =>
        (selectedImage = originalImage /\ faceDetected = "null")

\* C27: the poster preview is shown only in states where name is non-empty and
\* selectedImage is non-null.
C27_PreviewHasNameAndImage ==
    PreviewShown => (name # "" /\ selectedImage # NoImage)

\* C28: handleReset changes only showPoster, to false: name, location, selectedImage,
\* originalImage, selectedFilter, selectedFont, customOptions, faceDetected and
\* faceDetectionEnabled stay as they were, and the form is shown again.
C28_ResetKeepsForm ==
    [][(showPoster /\ ~showPoster') =>
          /\ PreviewShown
          /\ FormShown'
          /\ UNCHANGED <<name, location, selectedImage, originalImage, selectedFilter,
                         selectedFont, customOptions, faceDetected,
                         faceDetectionEnabled>>]_vars

\* back in the editor with every field changed from its initial value
C28_Witness ==
    /\ lastEvent = "reset"
    /\ ~showPoster
    /\ name # ""
    /\ location # ""
    /\ selectedImage.kind = "cropped"
    /\ originalImage # NoImage
    /\ selectedFilter # "classic"
    /\ selectedFont # "serif"
    /\ ~customOptions.showBorder
    /\ faceDetected = "true"

----------------------------------------------------------------------------
(* Further properties of the crop rectangle, of loadModels and of the outcome *)

\* C25: for every box inside the image and every padding >= 1 the crop rectangle
\* contains the face box: cropX <= box.x, cropY <= box.y,
\* cropX + cropWidth >= box.x + box.width, cropY + cropHeight >= box.y + box.height.
C25_CropContainsFace ==
    (Computed /\ BoxInsideImage /\ cropArgs.padding >= 10) =>
        /\ cropRect.x <= Unit * cropArgs.box.x
        /\ cropRect.y <= Unit * cropArgs.box.y
        /\ cropRect.x + cropRect.width >= Unit * (cropArgs.box.x + cropArgs.box.width)
        /\ cropRect.y + cropRect.height >= Unit * (cropArgs.box.y + cropArgs.box.height)

\* a box touching the bottom edge whose crop is clipped there, with margin on the left
C25_Witness ==
    /\ Computed
    /\ BoxInsideImage
    /\ cropArgs.padding > 10
    /\ cropArgs.box.y + cropArgs.box.height = cropArgs.imgHeight
    /\ cropRect.y + cropRect.height = ArgH
    /\ cropRect.height < ArgSize
    /\ cropRect.x > 0
    /\ cropRect.x < Unit * cropArgs.box.x

\* C26: a failed loadModels call leaves modelsLoaded false, so the next loadModels or
\* detectFace entry does not return early but starts a new attempt, calling loadFromUri
\* as soon as the library is there; there is no terminal failed state: a fetch that
\* succeeds later sets the flag.
C26_FailedLoadLeavesUnloaded ==
    /\ [][\A i \in Procs :
            ("loadError" \in events'[i] /\ "loadError" \notin events[i]) =>
                ~modelsLoaded']_vars
    /\ [][\A i \in Procs :
            (~modelsLoaded /\ loadCalls' = loadCalls + 1 /\ pc'[i] # pc[i]) =>
                /\ pc'[i] \in {"importing", "fetching"}
                /\ faceapi => (pc'[i] = "fetching" /\ fetchCount' = fetchCount + 1)]_vars
    /\ [][\A i \in Procs :
            (pc[i] = "fetching" /\ "loadError" \notin events'[i] /\ pc'[i] # pc[i]) =>
                modelsLoaded']_vars

\* C29: in every outcome processImageWithFaceDetection resolves with, detection is
\* non-null if and only if faceDetected is true, and faceDetected is false if and only
\* if processedImage is the input value itself.
C29_OutcomeFieldsAgree ==
    \A i \in Procs :
        (call[i] = "process" /\ outcome[i].settled = "resolved") =>
            /\ outcome[i].detection # NoDetection <=> outcome[i].faceDetected
            /\ outcome[i].detection.found <=> outcome[i].faceDetected
            /\ ~outcome[i].faceDetected <=> outcome[i].processedImage = input[i]

\* one call resolved with a crop and its detection, the other fell back after a
\* failed crop
C29_Witness ==
    \E i, j \in Procs :
        /\ outcome[i].settled = "resolved" /\ outcome[i].faceDetected
        /\ outcome[i].detection = detection[i]
        /\ outcome[j].settled = "resolved" /\ ~outcome[j].faceDetected
        /\ detection[j].found

====
